---------------------------- MODULE Spec2Model ----------------------------
(***************************************************************************)
(* A model of the FastAPI AI agent of src/claude/fastapi_ai_agent.py: the  *)
(* endpoint extractor (FastAPIAnalyzer), the orchestrator (FastAPIAIAgent  *)
(* and main) and the test executor (TestRunner.run_tests).                 *)
(*                                                                         *)
(* Python values are modelled as records of one shape each, so that any    *)
(* two values of a kind can be compared:                                   *)
(*   - a Python constant is [type, repr] (its type name and its str());    *)
(*   - an AST expression is [node, id, attr, value, const];                *)
(*   - the result of a call is [tag |-> "return", value] or                *)
(*     [tag |-> "raise", exc];                                             *)
(*   - an Optional[X] is <<>> (None) or <<x>>;                             *)
(*   - a line of text is a sequence of tokens (words and glyphs).          *)
(***************************************************************************)
EXTENDS Naturals, Sequences, FiniteSets, TLC

VARIABLES
    pc,                 \* where the modelled run stands
    args,               \* main: the parsed command line and the file system's answers
    source,             \* the application file: [readable, parses, tree]
    analyzer_endpoints, \* FastAPIAnalyzer.endpoints
    analysis,           \* the outcome of the last analyze_app call
    endpoints,          \* FastAPIAIAgent.endpoints
    test_generator,     \* FastAPIAIAgent.test_generator: <<>> or <<endpoint list>>
    doc_generator,      \* FastAPIAIAgent.doc_generator: <<>> or <<endpoint list>>
    test_code,          \* main's test_code: <<>> until generated
    documentation,      \* main's documentation: <<>> until generated
    child,              \* what the child process does once it is started
    app,                \* the application the generated tests send requests to
    temp_file,          \* the temporary test file of run_tests
    child_started,      \* whether subprocess.run started a child process
    results,            \* the list run_tests returns
    saved,              \* the artifacts save_files has written
    printed,            \* what main's own boundary printed
    stages,             \* the stages main has entered, in order
    escaped             \* the exception that left the modelled call, "" if none

vars == <<pc, args, source, analyzer_endpoints, analysis, endpoints,
          test_generator, doc_generator, test_code, documentation, child,
          app, temp_file, child_started, results, saved, printed, stages, escaped>>

----------------------------------------------------------------------------
(* Bounds of the model.                                                    *)

MaxDecorators == 2      \* decorators on the function of a one-function source
MaxArgs == 1            \* parameters of that function
MaxLines == 2           \* standard-output lines of the child process
MaxTokens == 4          \* tokens of one standard-output line

----------------------------------------------------------------------------
(* Python values and call results.                                         *)

Return(v) == [tag |-> "return", value |-> v]
Raise(e) == [tag |-> "raise", exc |-> e]

PyStr(s) == [type |-> "str", repr |-> s]
PyInt(s) == [type |-> "int", repr |-> s]
PyNone == [type |-> "NoneType", repr |-> "None"]

\* bool(value), as `and path` and `if endpoint.docstring` apply it.
Truthy(value) ==
    /\ value.type # "NoneType"
    /\ ~(value.type = "str" /\ value.repr = "")
    /\ ~(value.type = "int" /\ value.repr = "0")

\* str(value) and f"{value}".
str(value) == value.repr

\* s.upper() on the attribute names the model draws decorators from.
upper(s) ==
    CASE s = "get" -> "GET"
      [] s = "Get" -> "GET"
      [] s = "post" -> "POST"
      [] s = "put" -> "PUT"
      [] s = "delete" -> "DELETE"
      [] s = "patch" -> "PATCH"
      [] s = "route" -> "ROUTE"
      [] s = "websocket" -> "WEBSOCKET"

\* s.lower() on the methods an endpoint record can carry.
lower(s) ==
    CASE s = "GET" -> "get"
      [] s = "POST" -> "post"
      [] s = "PUT" -> "put"
      [] s = "DELETE" -> "delete"
      [] s = "PATCH" -> "patch"

----------------------------------------------------------------------------
(* AST nodes.                                                              *)

NoNode == [node |-> "None", id |-> ""]
NameNode(id) == [node |-> "Name", id |-> id]

\* An expression: a type annotation, a decorator argument.
Expr(node, id, attr, value, const) ==
    [node |-> node, id |-> id, attr |-> attr, value |-> value, const |-> const]
Absent == Expr("None", "", "", NoNode, PyNone)
Name(id) == Expr("Name", id, "", NoNode, PyNone)
Constant(v) == Expr("Constant", "", "", NoNode, v)
Attribute(value, attr) == Expr("Attribute", "", attr, value, PyNone)
Subscript == Expr("Subscript", "", "", NoNode, PyNone)

\* A decorator: func is the callee of a Call, args its positional arguments.
Decorator(node, func, dargs) == [node |-> node, func |-> func, args |-> dargs]
CallAttr(value, attr, dargs) == Decorator("Call", Attribute(value, attr), dargs)
App == NameNode("app")

\* A definition node: def (FunctionDef) or async def (AsyncFunctionDef).
FunctionNode(node, name, decorator_list, fargs, returns, docstring, body) ==
    [node |-> node, name |-> name, decorator_list |-> decorator_list,
     args |-> fargs, returns |-> returns, docstring |-> docstring,
     body |-> body]
Arg(name, annotation) == [arg |-> name, annotation |-> annotation]

----------------------------------------------------------------------------
(* FastAPIAnalyzer.                                                        *)

HTTP_METHODS == {"GET", "POST", "PUT", "DELETE", "PATCH"}

APIEndpoint(method, path, function_name, parameters, return_type, docstring) ==
    [method |-> method, path |-> path, function_name |-> function_name,
     parameters |-> parameters, return_type |-> return_type,
     docstring |-> docstring]

\* type_node.value.id exists only on a Name: any other value raises.
_get_type_name(type_node) ==
    IF type_node.node = "Name" THEN Return(type_node.id)
    ELSE IF type_node.node = "Constant" THEN Return(str(type_node.const))
    ELSE IF type_node.node = "Attribute" THEN
        IF type_node.value.node = "Name"
        THEN Return(type_node.value.id \o "." \o type_node.attr)
        ELSE Raise("AttributeError")
    ELSE Return("Any")

_extract_parameters(func_node) ==
    LET types == [i \in DOMAIN func_node.args |->
                    IF func_node.args[i].annotation.node # "None"
                    THEN _get_type_name(func_node.args[i].annotation)
                    ELSE Return("Any")]
    IN  IF \E i \in DOMAIN types : types[i].tag = "raise"
        THEN Raise("AttributeError")
        ELSE Return([i \in DOMAIN func_node.args |->
                       [name |-> func_node.args[i].arg,
                        type |-> types[i].value,
                        required |-> TRUE]])

_extract_return_type(func_node) ==
    IF func_node.returns.node # "None"
    THEN _get_type_name(func_node.returns)
    ELSE Return("Any")

\* The decorator loop of _extract_endpoint_info from decorator i on.
RECURSIVE ScanDecorators(_, _)
ScanDecorators(func_node, i) ==
    IF i > Len(func_node.decorator_list) THEN Return(<<>>)
    ELSE
        LET decorator == func_node.decorator_list[i] IN
        IF decorator.node = "Call" /\ decorator.func.node = "Attribute" THEN
            LET method == upper(decorator.func.attr)
                path == IF decorator.args # <<>>
                           /\ decorator.args[1].node = "Constant"
                        THEN decorator.args[1].const
                        ELSE PyNone
            IN  IF method \in HTTP_METHODS /\ Truthy(path) THEN
                    LET parameters == _extract_parameters(func_node)
                        return_type == _extract_return_type(func_node)
                    IN  IF parameters.tag = "raise" THEN parameters
                        ELSE IF return_type.tag = "raise" THEN return_type
                        ELSE Return(<<APIEndpoint(method, path, func_node.name,
                                                  parameters.value,
                                                  return_type.value,
                                                  func_node.docstring)>>)
                ELSE ScanDecorators(func_node, i + 1)
        ELSE ScanDecorators(func_node, i + 1)

_extract_endpoint_info(func_node) == ScanDecorators(func_node, 1)

\* ast.walk: breadth first, the children of a node queued behind its siblings.
\* Only definition nodes are kept: every other node fails the isinstance test.
RECURSIVE ast_walk(_)
ast_walk(todo) ==
    IF todo = <<>> THEN <<>>
    ELSE <<Head(todo)>> \o ast_walk(Tail(todo) \o Head(todo).body)

\* The loop of _extract_endpoints over the walked nodes from node i on.
RECURSIVE ExtractFrom(_, _, _)
ExtractFrom(nodes, i, found) ==
    IF i > Len(nodes) THEN Return(found)
    ELSE IF nodes[i].node = "FunctionDef" THEN
        LET endpoint_info == _extract_endpoint_info(nodes[i]) IN
        IF endpoint_info.tag = "raise" THEN endpoint_info
        ELSE ExtractFrom(nodes, i + 1, found \o endpoint_info.value)
    ELSE ExtractFrom(nodes, i + 1, found)

_extract_endpoints(tree) == ExtractFrom(ast_walk(tree), 1, <<>>)

\* open(...).read() and ast.parse(...) of the application file.
ReadAndParse(src) ==
    IF ~src.readable THEN Raise("OSError")
    ELSE IF ~src.parses THEN Raise("SyntaxError")
    ELSE Return(src.tree)

\* analyze_app without its try/except: an exception leaves the call.
analyze_app_unguarded(src, self_endpoints) ==
    LET tree == ReadAndParse(src)
        found == IF tree.tag = "raise" THEN tree
                 ELSE _extract_endpoints(tree.value)
    IN  IF found.tag = "raise"
        THEN [returned |-> <<>>, endpoints |-> self_endpoints,
              printed |-> "", raised |-> found.exc]
        ELSE [returned |-> found.value, endpoints |-> found.value,
              printed |-> "", raised |-> ""]

\* analyze_app: what it returns, what it leaves in self.endpoints, the
\* exception whose message it printed and the exception it let through.
analyze_app(src, self_endpoints) ==
    LET tree == ReadAndParse(src)
        found == IF tree.tag = "raise" THEN tree
                 ELSE _extract_endpoints(tree.value)
    IN  IF found.tag = "raise"
        THEN [returned |-> <<>>, endpoints |-> self_endpoints,
              printed |-> found.exc, raised |-> ""]
        ELSE [returned |-> found.value, endpoints |-> found.value,
              printed |-> "", raised |-> ""]

----------------------------------------------------------------------------
(* TestGenerator and DocumentationGenerator.  A generated text is the      *)
(* sequence of its blocks; each block keeps the values its template was    *)
(* filled with.                                                            *)

Block(kind, name, method, path) ==
    [kind |-> kind, name |-> name, method |-> method, path |-> path]

_generate_test_header == <<Block("test_header", "", "", "")>>

\* One success test and one invalid-data test per endpoint.
_generate_endpoint_test(endpoint) ==
    <<Block("test_success", "test_" \o endpoint.function_name,
            endpoint.method, str(endpoint.path)),
      Block("test_invalid_data",
            "test_" \o endpoint.function_name \o "_invalid_data",
            endpoint.method, str(endpoint.path))>>

_generate_test_footer == <<Block("test_footer", "", "", "")>>

RECURSIVE EndpointTests(_)
EndpointTests(eps) ==
    IF eps = <<>> THEN <<>>
    ELSE _generate_endpoint_test(Head(eps)) \o EndpointTests(Tail(eps))

TestGenerator_generate_tests(eps) ==
    _generate_test_header \o EndpointTests(eps) \o _generate_test_footer

_generate_doc_header == <<Block("doc_header", "", "", "")>>

RECURSIVE _generate_endpoints_section(_)
_generate_endpoints_section(eps) ==
    IF eps = <<>> THEN <<>>
    ELSE <<Block("doc_endpoint", Head(eps).function_name, Head(eps).method,
                 str(Head(eps).path))>>
         \o _generate_endpoints_section(Tail(eps))

_generate_schemas_section == <<Block("doc_schemas", "", "", "")>>
_generate_examples_section == <<Block("doc_examples", "", "", "")>>

DocumentationGenerator_generate_documentation(eps) ==
    _generate_doc_header \o _generate_endpoints_section(eps)
    \o _generate_schemas_section \o _generate_examples_section

----------------------------------------------------------------------------
(* TestRunner.run_tests.  A text is a sequence of tokens.                  *)

CHECK == "U+2713"      \* the checkmark glyph
CROSS == "U+2717"      \* the x glyph
HYPHEN == "-"
NL == "\n"
SP == " "

\* The tokens that hold a word as a substring: 'FAILED' in 'FAILED:'.
Embeds(tok, word) == tok = word \/ (tok = "FAILED:" /\ word = "FAILED")

\* "word in text".
Contains(text, word) == \E i \in DOMAIN text : Embeds(text[i], word)

\* The index of the first tok in text (0 when there is none).
Find(text, tok) ==
    IF Contains(text, tok)
    THEN CHOOSE i \in DOMAIN text :
            text[i] = tok /\ \A j \in 1..(i - 1) : text[j] # tok
    ELSE 0

\* text.split(tok): the pieces between the occurrences of tok.
RECURSIVE split(_, _)
split(text, tok) ==
    IF ~Contains(text, tok) THEN <<text>>
    ELSE LET i == Find(text, tok) IN
         <<SubSeq(text, 1, i - 1)>> \o split(SubSeq(text, i + 1, Len(text)), tok)

\* text.strip(): without its leading and trailing whitespace.
RECURSIVE lstrip(_)
lstrip(text) ==
    IF text # <<>> /\ Head(text) \in {SP, NL} THEN lstrip(Tail(text)) ELSE text

RECURSIVE rstrip(_)
rstrip(text) ==
    IF text # <<>> /\ text[Len(text)] \in {SP, NL}
    THEN rstrip(SubSeq(text, 1, Len(text) - 1))
    ELSE text

strip(text) == lstrip(rstrip(text))

TestResult(test_name, status, output, error) ==
    [test_name |-> test_name, status |-> status, output |-> output,
     error |-> error]

\* The error message of a FAILED line: parts[1], or "Unknown error".
FailedError(parts) ==
    IF Len(parts) > 1 THEN strip(parts[2]) ELSE <<"Unknown error">>

\* A parser that cuts the test name at the glyph and forgets the hyphen.
ParseLine_no_hyphen_split(line) ==
    IF Contains(line, CHECK) /\ Contains(line, "PASSED") THEN
        LET test_name == strip(split(line, CHECK)[2])
        IN  <<TestResult(test_name, "PASSED", strip(line), <<>>)>>
    ELSE IF Contains(line, CROSS) /\ Contains(line, "FAILED") THEN
        LET parts == split(split(line, CROSS)[2], HYPHEN)
        IN  <<TestResult(strip(parts[1]), "FAILED", strip(line),
                         <<FailedError(parts)>>)>>
    ELSE <<>>

\* The outcome a standard-output line yields: <<>> or <<TestResult>>.
ParseLine(line) ==
    IF Contains(line, CHECK) /\ Contains(line, "PASSED") THEN
        LET test_name == strip(split(split(line, CHECK)[2], HYPHEN)[1])
        IN  <<TestResult(test_name, "PASSED", strip(line), <<>>)>>
    ELSE IF Contains(line, CROSS) /\ Contains(line, "FAILED") THEN
        LET parts == split(split(line, CROSS)[2], HYPHEN)
        IN  <<TestResult(strip(parts[1]), "FAILED", strip(line),
                         <<FailedError(parts)>>)>>
    ELSE <<>>

RECURSIVE ParseLines(_)
ParseLines(output_lines) ==
    IF output_lines = <<>> THEN <<>>
    ELSE ParseLine(Head(output_lines)) \o ParseLines(Tail(output_lines))

\* The synthetic outcome for standard-error text, without the test on it.
StderrOutcome_always(stderr) ==
    <<TestResult(<<"General Error">>, "ERROR", stderr, <<stderr>>)>>

\* "if process.stderr:" and the outcome appended under it.
StderrOutcome(stderr) ==
    IF stderr # <<>>
    THEN <<TestResult(<<"General Error">>, "ERROR", stderr, <<stderr>>)>>
    ELSE <<>>

\* The body of the try block once the child has completed.
ParseProcess(process) ==
    ParseLines(split(process.stdout, NL)) \o StderrOutcome(process.stderr)

\* A run_tests without the "except subprocess.TimeoutExpired" clause: the
\* generic handler takes the timeout for any other invocation failure.
run_tests_timeout_unnamed(code, env) ==
    IF env.tempfile = "create_fails"
    THEN [results |-> <<>>, raised |-> "OSError", child_started |-> FALSE,
          temp_file |-> "none"]
    ELSE IF env.tempfile = "write_fails"
    THEN [results |-> <<>>, raised |-> "UnicodeEncodeError",
          child_started |-> FALSE, temp_file |-> "exists"]
    ELSE
        LET found ==
                CASE env.outcome = "completed" -> ParseProcess(env)
                  [] env.outcome = "timeout" ->
                        <<TestResult(<<"Execution Error">>, "ERROR",
                                     <<"TimeoutExpired">>,
                                     <<<<"TimeoutExpired">>>>)>>
                  [] env.outcome = "launch_error" ->
                        <<TestResult(<<"Execution Error">>, "ERROR",
                                     <<"OSError">>, <<<<"OSError">>>>)>>
                  [] env.outcome = "decode_error" ->
                        <<TestResult(<<"Execution Error">>, "ERROR",
                                     <<"UnicodeDecodeError">>,
                                     <<<<"UnicodeDecodeError">>>>)>>
        IN  [results |-> found, raised |-> "",
             child_started |-> env.outcome # "launch_error",
             temp_file |-> IF env.unlink = "ok" THEN "removed" ELSE "exists"]

\* run_tests against a child process and a file system that behave as env
\* says: what it returns or raises, whether a child was started and what
\* became of the temporary file.
run_tests(code, env) ==
    IF env.tempfile = "create_fails"
    THEN [results |-> <<>>, raised |-> "OSError", child_started |-> FALSE,
          temp_file |-> "none"]
    ELSE IF env.tempfile = "write_fails"
    THEN [results |-> <<>>, raised |-> "UnicodeEncodeError",
          child_started |-> FALSE, temp_file |-> "exists"]
    ELSE
        LET found ==
                CASE env.outcome = "completed" -> ParseProcess(env)
                  [] env.outcome = "timeout" ->
                        <<TestResult(<<"Timeout">>, "ERROR",
                                     <<"Test execution timed out">>,
                                     <<<<"Test execution exceeded 30 seconds">>>>)>>
                  [] env.outcome = "launch_error" ->
                        <<TestResult(<<"Execution Error">>, "ERROR",
                                     <<"OSError">>, <<<<"OSError">>>>)>>
                  [] env.outcome = "decode_error" ->
                        <<TestResult(<<"Execution Error">>, "ERROR",
                                     <<"UnicodeDecodeError">>,
                                     <<<<"UnicodeDecodeError">>>>)>>
        IN  [results |-> found, raised |-> "",
             child_started |-> env.outcome # "launch_error",
             temp_file |-> IF env.unlink = "ok" THEN "removed" ELSE "exists"]

----------------------------------------------------------------------------
(* FastAPIAIAgent and main.                                                *)

\* The endpoint analyze_application puts in place of an empty analysis.
Placeholder ==
    APIEndpoint("GET", PyStr("/"), "root", <<>>, "dict", PyStr("Root endpoint"))

\* analyze_application without the substitution.
SubstitutePlaceholder_never(found) == found

\* "if not self.endpoints:" and the list assigned under it.
SubstitutePlaceholder(found) ==
    IF found = <<>> THEN <<Placeholder>> ELSE found

\* save_files: mkdir, then the test file, then the documentation file.
save_files(output_dir) ==
    CASE output_dir = "mkdir_fails" -> [saved |-> {}, raised |-> "OSError"]
      [] output_dir = "test_file_fails" -> [saved |-> {}, raised |-> "OSError"]
      [] output_dir = "doc_file_fails" ->
            [saved |-> {"test_generated.py"}, raised |-> "OSError"]
      [] output_dir = "writable" ->
            [saved |-> {"test_generated.py", "api_documentation.md"},
             raised |-> ""]

\* The classes of the exceptions the stages raise: all derive from Exception.
ExceptionClasses ==
    {"OSError", "SyntaxError", "AttributeError", "ValueError",
     "UnicodeEncodeError", "UnicodeDecodeError", "TimeoutExpired"}

\* A handler that names one class only.
Caught_value_error_only(exc) == exc = "ValueError"

\* "except Exception as e:" of main.
Caught(exc) == exc \in ExceptionClasses

\* A main that runs the tests whatever --no-run says.
AfterDocumentation_always_run(no_run) == "run_tests"

\* "if not args.no_run:" of main.
AfterDocumentation(no_run) == IF no_run THEN "save_files" ELSE "run_tests"

\* A stage raised exc inside main's try block.
Failed(exc) ==
    /\ pc' = "done"
    /\ IF Caught(exc)
       THEN printed' = Append(printed, "Error: " \o exc) /\ escaped' = ""
       ELSE escaped' = exc /\ UNCHANGED printed

Main ==
    /\ pc = "main"
    /\ IF ~args.app_file_exists
       THEN pc' = "done" /\ printed' = Append(printed, "Error: File not found")
       ELSE pc' = "analyze_application" /\ UNCHANGED printed
    /\ UNCHANGED <<args, app, source, analyzer_endpoints, analysis, endpoints,
                   test_generator, doc_generator, test_code, documentation,
                   child, temp_file, child_started, results, saved, stages,
                   escaped>>

AnalyzeApplication ==
    /\ pc = "analyze_application"
    /\ stages' = Append(stages, "analyze")
    /\ analysis' = analyze_app(source, analyzer_endpoints)
    /\ analyzer_endpoints' = analysis'.endpoints
    /\ IF analysis'.raised # ""
       THEN /\ Failed(analysis'.raised)
            /\ UNCHANGED <<endpoints, test_generator, doc_generator>>
       ELSE /\ endpoints' = SubstitutePlaceholder(analysis'.returned)
            /\ test_generator' = <<endpoints'>>
            /\ doc_generator' = <<endpoints'>>
            /\ pc' = "generate_tests"
            /\ UNCHANGED <<printed, escaped>>
    /\ UNCHANGED <<args, app, source, test_code, documentation, child, temp_file,
                   child_started, results, saved>>

GenerateTests ==
    /\ pc = "generate_tests"
    /\ stages' = Append(stages, "generate_tests")
    /\ IF test_generator = <<>>
       THEN Failed("ValueError") /\ UNCHANGED test_code
       ELSE /\ test_code' = TestGenerator_generate_tests(test_generator[1])
            /\ pc' = "generate_documentation"
            /\ UNCHANGED <<printed, escaped>>
    /\ UNCHANGED <<args, app, source, analyzer_endpoints, analysis, endpoints,
                   test_generator, doc_generator, documentation, child,
                   temp_file, child_started, results, saved>>

GenerateDocumentation ==
    /\ pc = "generate_documentation"
    /\ stages' = Append(stages, "generate_documentation")
    /\ IF doc_generator = <<>>
       THEN Failed("ValueError") /\ UNCHANGED documentation
       ELSE /\ documentation' =
                  DocumentationGenerator_generate_documentation(doc_generator[1])
            /\ pc' = AfterDocumentation(args.no_run)
            /\ UNCHANGED <<printed, escaped>>
    /\ UNCHANGED <<args, app, source, analyzer_endpoints, analysis, endpoints,
                   test_generator, doc_generator, test_code, child, temp_file,
                   child_started, results, saved>>

RunTests ==
    /\ pc = "run_tests"
    /\ stages' = Append(stages, "run_tests")
    /\ LET run == run_tests(test_code, child) IN
       /\ results' = run.results
       /\ temp_file' = run.temp_file
       /\ child_started' = run.child_started
       /\ IF run.raised # ""
          THEN Failed(run.raised)
          ELSE pc' = "save_files" /\ UNCHANGED <<printed, escaped>>
    /\ UNCHANGED <<args, app, source, analyzer_endpoints, analysis, endpoints,
                   test_generator, doc_generator, test_code, documentation,
                   child, saved>>

SaveFiles ==
    /\ pc = "save_files"
    /\ stages' = Append(stages, "save_files")
    /\ LET save == save_files(args.output_dir) IN
       /\ saved' = save.saved
       /\ IF save.raised # ""
          THEN Failed(save.raised)
          ELSE /\ pc' = "done"
               /\ printed' = Append(printed, "AI Agent completed successfully!")
               /\ UNCHANGED escaped
    /\ UNCHANGED <<args, app, source, analyzer_endpoints, analysis, endpoints,
                   test_generator, doc_generator, test_code, documentation,
                   child, temp_file, child_started, results>>

----------------------------------------------------------------------------
(* The inputs the specifications draw from.                                *)

SeqsUpTo(S, n) == UNION {[1..k -> S] : k \in 0..n}

Dotted == [node |-> "Attribute", id |-> ""]     \* the a.b of a.b.c

\* @staticmethod, @app.get (no call), @limiter("/a"), @app.<attr>(...) and
\* @a.b.get("/a").
DecoratorShapes ==
    {Decorator("Name", Absent, <<>>),
     Decorator("Attribute", Absent, <<>>),
     Decorator("Call", Name("limiter"), <<Constant(PyStr("/a"))>>),
     CallAttr(App, "get", <<Constant(PyStr("/a"))>>),
     CallAttr(App, "post", <<Constant(PyStr("/b"))>>),
     CallAttr(App, "put", <<Constant(PyStr("/a"))>>),
     CallAttr(App, "delete", <<Constant(PyStr("/a"))>>),
     CallAttr(App, "patch", <<Constant(PyStr("/a")), Name("extra")>>),
     CallAttr(App, "Get", <<Constant(PyStr("/c"))>>),
     CallAttr(App, "route", <<Constant(PyStr("/a"))>>),
     CallAttr(App, "websocket", <<Constant(PyStr("/ws"))>>),
     CallAttr(App, "get", <<>>),
     CallAttr(App, "get", <<Name("prefix")>>),
     CallAttr(App, "get", <<Constant(PyStr(""))>>),
     CallAttr(App, "get", <<Constant(PyInt("1"))>>),
     CallAttr(Dotted, "get", <<Constant(PyStr("/a"))>>)}

\* No annotation, int, "User", None, models.User, a.b.User, List[int].
AnnotationShapes ==
    {Absent, Name("int"), Constant(PyStr("User")), Constant(PyNone),
     Attribute(NameNode("models"), "User"), Attribute(Dotted, "User"),
     Subscript}

Def(name, decorator_list, fargs, returns) ==
    FunctionNode("FunctionDef", name, decorator_list, fargs, returns, PyNone,
                 <<>>)

\* One function: any decorators on a plain or on a failing signature, and
\* any signature under one endpoint decorator.
SingleFunctions ==
    {Def("f", d, <<>>, Absent) : d \in SeqsUpTo(DecoratorShapes, MaxDecorators)}
    \cup {Def("f", d, <<Arg("x", Attribute(Dotted, "User"))>>, Absent) :
            d \in SeqsUpTo(DecoratorShapes, MaxDecorators)}
    \cup {Def("f", <<CallAttr(App, "get", <<Constant(PyStr("/a"))>>)>>,
              a, r) :
            a \in SeqsUpTo({Arg("x", t) : t \in AnnotationShapes}, MaxArgs),
            r \in AnnotationShapes}

GetRoot ==
    FunctionNode("FunctionDef", "root",
                 <<CallAttr(App, "get", <<Constant(PyStr("/"))>>)>>,
                 <<>>, Absent, PyStr("Root endpoint"), <<>>)
CreateUser ==
    Def("create_user",
        <<CallAttr(App, "post", <<Constant(PyStr("/users"))>>)>>,
        <<Arg("user", Name("UserCreate"))>>, Name("User"))
Helper == Def("helper", <<>>, <<Arg("self", Absent)>>, Absent)
Broken ==
    Def("broken", <<CallAttr(App, "get", <<Constant(PyStr("/broken"))>>)>>,
        <<Arg("item", Attribute(Dotted, "Item"))>>, Absent)
AsyncGetItem ==
    FunctionNode("AsyncFunctionDef", "get_item",
                 <<CallAttr(App, "get", <<Constant(PyStr("/items/{item_id}"))>>)>>,
                 <<Arg("item_id", Name("int"))>>, Absent, PyNone, <<>>)
Outer ==
    FunctionNode("FunctionDef", "outer", <<>>, <<>>, Absent, PyNone,
                 <<Def("inner",
                       <<CallAttr(App, "delete", <<Constant(PyStr("/inner"))>>)>>,
                       <<>>, Absent)>>)

SeveralFunctions ==
    [1..2 -> {GetRoot, CreateUser, Helper, Broken, AsyncGetItem, Outer}]

Source(readable, parses, tree) ==
    [readable |-> readable, parses |-> parses, tree |-> tree]

AnalyzerSources ==
    {Source(FALSE, FALSE, <<>>), Source(TRUE, FALSE, <<>>), Source(TRUE, TRUE, <<>>)}
    \cup {Source(TRUE, TRUE, <<f>>) : f \in SingleFunctions}
    \cup {Source(TRUE, TRUE, t) : t \in SeveralFunctions}

MainSources ==
    {Source(FALSE, FALSE, <<>>), Source(TRUE, FALSE, <<>>),
     Source(TRUE, TRUE, <<>>), Source(TRUE, TRUE, <<Helper>>),
     Source(TRUE, TRUE, <<GetRoot, CreateUser>>),
     Source(TRUE, TRUE, <<GetRoot, Broken>>)}

Child(tempfile, outcome, stdout, stderr, returncode, unlink) ==
    [tempfile |-> tempfile, outcome |-> outcome, stdout |-> stdout,
     stderr |-> stderr, returncode |-> returncode, unlink |-> unlink]

Tokens == {CHECK, CROSS, HYPHEN, "PASSED", "FAILED", "test_root", SP}

PassedLine == <<CHECK, SP, "test_root", SP, HYPHEN, SP, "PASSED">>
FailedLine ==
    <<CROSS, SP, "test_root", SP, HYPHEN, SP, "FAILED:", SP, "non", HYPHEN,
      "JSON">>
SummaryLine == <<"Passed:", SP, "1">>

RECURSIVE JoinLines(_)
JoinLines(lines) ==
    IF lines = <<>> THEN <<>>
    ELSE Head(lines) \o <<NL>> \o JoinLines(Tail(lines))

\* What the child may have printed: one line of any tokens, or several of
\* the lines a generated module prints.
StdoutTexts ==
    {JoinLines(<<l>>) : l \in SeqsUpTo(Tokens, MaxTokens)}
    \cup {JoinLines(ls) :
            ls \in SeqsUpTo({PassedLine, FailedLine, SummaryLine}, MaxLines)}

StderrTexts == {<<>>, <<SP, "Traceback", SP, HYPHEN, NL>>}

RunnerChildren ==
    {Child("ok", "completed", out, err, rc, "ok") :
        out \in StdoutTexts, err \in StderrTexts, rc \in {0, 1}}
    \cup {Child("ok", o, <<>>, err, 1, u) :
            o \in {"timeout", "launch_error", "decode_error"},
            err \in StderrTexts, u \in {"ok", "fails"}}
    \cup {Child(t, "completed", <<>>, <<>>, 0, "ok") :
            t \in {"create_fails", "write_fails"}}
    \cup {Child("ok", "completed", JoinLines(<<PassedLine>>), err, 0, "fails") :
            err \in StderrTexts}

MainChildren ==
    {Child("ok", "completed", JoinLines(<<PassedLine, FailedLine>>), err, 1, "ok") :
        err \in StderrTexts}
    \cup {Child("ok", o, <<>>, <<>>, 1, "ok") : o \in {"timeout", "launch_error"}}
    \cup {Child("ok", "timeout", JoinLines(<<PassedLine, FailedLine>>),
                 <<SP, "Traceback", SP, HYPHEN, NL>>, 1, u) :
            u \in {"ok", "fails"}}
    \cup {Child(t, "completed", <<>>, <<>>, 0, "ok") :
            t \in {"create_fails", "write_fails"}}

OutputDirs == {"writable", "mkdir_fails", "test_file_fails", "doc_file_fails"}

----------------------------------------------------------------------------
(* The generated test module, run as the child process runs it.            *)

MaxEndpoints == 2       \* endpoint records handed to the test generator

\* The paths of the endpoint records the model generates tests for.
Paths == {"/", "/users", "/users/{user_id}", "/items/{id}", "/my-items"}

\* The text of a path, character for character.
Text(path) ==
    IF path = "/my-items" THEN <<"/my", HYPHEN, "items">> ELSE <<path>>

\* The replacement field a path makes inside an f-string, if it has one.
ReplacementField(path) ==
    CASE path = "/users/{user_id}" -> <<"user_id">>
      [] path = "/items/{id}" -> <<"id">>
      [] OTHER -> <<>>

\* The names a replacement field resolves inside a generated test method:
\* its locals, the module's globals and the builtins.
ScopeNames ==
    {"self", "response", "pytest", "TestClient", "Mock", "patch", "json",
     "sys", "os", "app", "client", "id"}

\* What print(f"... {endpoint.path} ...") makes of the path: the template
\* pastes the path into the f-string of the generated source, so a brace
\* parameter is evaluated when the test runs.
FormatPath(path) ==
    IF ReplacementField(path) = <<>> THEN Return(Text(path))
    ELSE IF ReplacementField(path)[1] \notin ScopeNames
    THEN Raise(<<"name '" \o ReplacementField(path)[1] \o "' is not defined">>)
    ELSE Return(<<"/items/<built", HYPHEN, "in function id>">>)

\* The status the application answers client.<method>(path) with.
PlainStatus(application, path) ==
    IF path \in application.serves THEN "200" ELSE "404"

\* The status it answers client.<method>(path, json={"invalid": "data"}) with.
InvalidStatus(application, path) ==
    IF path \notin application.serves THEN "404"
    ELSE IF application.validates THEN "422" ELSE "200"

\* One call of a test method: the lines it prints, and the message of the
\* exception that leaves it (<<>> when it returns).
Ran(lines, exc) == [printed |-> lines, raised |-> exc]

\* print(f"U+2713 {method} {path}{suffix} - PASSED") at the end of a test.
PrintMarker(method, path, suffix) ==
    LET shown == FormatPath(path) IN
    IF shown.tag = "raise" THEN Ran(<<>>, <<shown.exc>>)
    ELSE Ran(<<<<CHECK, SP, method, SP>> \o shown.value \o suffix
               \o <<SP, HYPHEN, SP, "PASSED">>>>, <<>>)

\* The body of test_<function>: the status assertion, then the marker.  The
\* assertion on the JSON body sits under a bare except whose own assertion
\* holds of every response, so it never fails the test.
RunSuccessTest(block, application) ==
    IF PlainStatus(application, block.path) \notin {"200", "201", "204"}
    THEN Ran(<<>>, <<<<"Expected success status, got", SP,
                       PlainStatus(application, block.path)>>>>)
    ELSE PrintMarker(block.method, block.path, <<>>)

\* The body of test_<function>_invalid_data: all of it is under
\* if "<method>" in ["POST", "PUT", "PATCH"].
RunInvalidDataTest(block, application) ==
    IF block.method \in {"POST", "PUT", "PATCH"} THEN
        IF InvalidStatus(application, block.path)
              \notin {"400", "404", "422", "500"}
        THEN Ran(<<>>, <<<<"Expected error status, got", SP,
                           InvalidStatus(application, block.path)>>>>)
        ELSE PrintMarker(block.method, block.path, <<SP, "(invalid data)">>)
    ELSE Ran(<<>>, <<>>)

RunTestMethod(block, application) ==
    IF block.kind = "test_success" THEN RunSuccessTest(block, application)
    ELSE RunInvalidDataTest(block, application)

\* The alphabetical order dir(test_instance) lists the method names in.
DirOrder ==
    <<"test_create_user", "test_create_user_invalid_data",
      "test_delete_item", "test_delete_item_invalid_data",
      "test_get_item", "test_get_item_invalid_data",
      "test_get_user", "test_get_user_invalid_data",
      "test_read_root", "test_read_root_invalid_data">>

IsTestMethod(block) == block.kind \in {"test_success", "test_invalid_data"}

\* [method for method in dir(test_instance) if method.startswith('test_')]
test_methods(code) ==
    SelectSeq(DirOrder,
              LAMBDA name : \E i \in DOMAIN code :
                                IsTestMethod(code[i]) /\ code[i].name = name)

\* getattr(test_instance, method_name): the last def of that name in the
\* class body.
getattr(code, method_name) ==
    code[CHOOSE i \in DOMAIN code :
            /\ IsTestMethod(code[i]) /\ code[i].name = method_name
            /\ \A j \in (i + 1)..Len(code) : code[j].name # method_name]

\* print(f"U+2717 {method_name} - FAILED: {e}")
FailedMarker(method_name, message) ==
    <<CROSS, SP, method_name, SP, HYPHEN, SP, "FAILED:", SP>> \o message

Numeral(n) ==
    CASE n = 0 -> "0" [] n = 1 -> "1" [] n = 2 -> "2" [] n = 3 -> "3"
      [] n = 4 -> "4" [] n = 5 -> "5" [] n = 6 -> "6" [] OTHER -> "many"

\* The loop of the footer over the test methods from the i-th on.
RECURSIVE RunFrom(_, _, _, _, _, _)
RunFrom(code, application, names, i, passed, failed) ==
    IF i > Len(names)
    THEN <<<<>>, <<"=== Test Results ===">>,
           <<"Passed:", SP, Numeral(passed)>>,
           <<"Failed:", SP, Numeral(failed)>>,
           <<"Total:", SP, Numeral(passed + failed)>>>>
    ELSE LET ran == RunTestMethod(getattr(code, names[i]), application) IN
         IF ran.raised = <<>>
         THEN ran.printed
              \o RunFrom(code, application, names, i + 1, passed + 1, failed)
         ELSE ran.printed \o <<FailedMarker(names[i], ran.raised[1])>>
              \o RunFrom(code, application, names, i + 1, passed, failed + 1)

\* python <generated module>: the standard output of the __main__ block.
RunModule(code, application) ==
    JoinLines(RunFrom(code, application, test_methods(code), 1, 0, 0))

Endpoint(method, path, function_name) ==
    APIEndpoint(method, PyStr(path), function_name, <<>>, "Any", PyNone)

\* The endpoints of an application like the sample one.
SampleEndpoints ==
    {Endpoint("GET", "/", "read_root"),
     Endpoint("GET", "/users/{user_id}", "get_user"),
     Endpoint("POST", "/users", "create_user"),
     Endpoint("DELETE", "/my-items", "delete_item")}

\* The endpoint lists the generator is given: one endpoint of any method and
\* path, or several endpoints of distinct functions.
GeneratedEndpoints ==
    {<<Endpoint(m, p, "get_item")>> : m \in HTTP_METHODS, p \in Paths}
    \cup {eps \in SeqsUpTo(SampleEndpoints, MaxEndpoints) :
            /\ Len(eps) > 1
            /\ \A i, j \in DOMAIN eps : i # j => eps[i] # eps[j]}

\* The applications under test: the paths they answer with success, and
\* whether they reject a body they do not expect.
Apps == [serves : SUBSET Paths, validates : BOOLEAN]

SampleApp == [serves |-> Paths, validates |-> TRUE]

----------------------------------------------------------------------------
(* The specifications.                                                     *)

\* The state FastAPIAIAgent.__init__ and FastAPIAnalyzer.__init__ leave.
Constructed ==
    /\ analyzer_endpoints = <<>>
    /\ analysis = [returned |-> <<>>, endpoints |-> <<>>, printed |-> "",
                   raised |-> ""]
    /\ endpoints = <<>>
    /\ test_generator = <<>>
    /\ doc_generator = <<>>
    /\ test_code = <<>>
    /\ documentation = <<>>
    /\ temp_file = "none"
    /\ child_started = FALSE
    /\ results = <<>>
    /\ saved = {}
    /\ printed = <<>>
    /\ stages = <<>>
    /\ escaped = ""

\* A run of main.
Init ==
    /\ pc = "main"
    /\ args \in [app_file_exists : BOOLEAN, no_run : BOOLEAN,
                 output_dir : OutputDirs]
    /\ source \in MainSources
    /\ child \in MainChildren
    /\ app = SampleApp
    /\ Constructed

Next ==
    \/ Main
    \/ AnalyzeApplication
    \/ GenerateTests
    \/ GenerateDocumentation
    \/ RunTests
    \/ SaveFiles

Spec == Init /\ [][Next]_vars

\* One call of FastAPIAnalyzer.analyze_app.
AnalyzeAppCall ==
    /\ pc = "analyze_app"
    /\ pc' = "analyzed"
    /\ analysis' = analyze_app(source, analyzer_endpoints)
    /\ analyzer_endpoints' = analysis'.endpoints
    /\ escaped' = analysis'.raised
    /\ UNCHANGED <<args, app, source, endpoints, test_generator, doc_generator,
                   test_code, documentation, child, temp_file, child_started,
                   results, saved, printed, stages>>

InitAnalyzer ==
    /\ pc = "analyze_app"
    /\ args = [app_file_exists |-> TRUE, no_run |-> TRUE,
               output_dir |-> "writable"]
    /\ source \in AnalyzerSources
    /\ child = Child("ok", "completed", <<>>, <<>>, 0, "ok")
    /\ app = SampleApp
    /\ Constructed

SpecAnalyzer == InitAnalyzer /\ [][AnalyzeAppCall]_vars

\* One call of TestRunner.run_tests.
RunTestsCall ==
    /\ pc = "run_tests_call"
    /\ pc' = "returned"
    /\ LET run == run_tests(test_code, child) IN
       /\ results' = run.results
       /\ temp_file' = run.temp_file
       /\ child_started' = run.child_started
       /\ escaped' = run.raised
    /\ UNCHANGED <<args, app, source, analyzer_endpoints, analysis, endpoints,
                   test_generator, doc_generator, test_code, documentation,
                   child, saved, printed, stages>>

InitRunner ==
    /\ pc = "run_tests_call"
    /\ args = [app_file_exists |-> TRUE, no_run |-> FALSE,
               output_dir |-> "writable"]
    /\ source = Source(TRUE, TRUE, <<>>)
    /\ child \in RunnerChildren
    /\ app = SampleApp
    /\ analyzer_endpoints = <<>>
    /\ analysis = [returned |-> <<>>, endpoints |-> <<>>, printed |-> "",
                   raised |-> ""]
    /\ endpoints = <<Placeholder>>
    /\ test_generator = <<endpoints>>
    /\ doc_generator = <<endpoints>>
    /\ test_code = TestGenerator_generate_tests(<<Placeholder>>)
    /\ documentation = <<>>
    /\ temp_file = "none"
    /\ child_started = FALSE
    /\ results = <<>>
    /\ saved = {}
    /\ printed = <<>>
    /\ stages = <<>>
    /\ escaped = ""

SpecRunner == InitRunner /\ [][RunTestsCall]_vars

\* One call of TestGenerator.generate_tests.
GenerateTestsCall ==
    /\ pc = "generate_tests_call"
    /\ pc' = "generated"
    /\ test_code' = TestGenerator_generate_tests(test_generator[1])
    /\ UNCHANGED <<args, app, source, analyzer_endpoints, analysis, endpoints,
                   test_generator, doc_generator, documentation, child,
                   temp_file, child_started, results, saved, printed, stages,
                   escaped>>

\* One call of TestRunner.run_tests on the generated module, with a child
\* process that runs that module against the application.
RunGeneratedTests ==
    /\ pc = "generated"
    /\ pc' = "returned"
    /\ child' = Child("ok", "completed", RunModule(test_code, app), <<>>, 0,
                      "ok")
    /\ LET run == run_tests(test_code, child') IN
       /\ results' = run.results
       /\ temp_file' = run.temp_file
       /\ child_started' = run.child_started
       /\ escaped' = run.raised
    /\ UNCHANGED <<args, app, source, analyzer_endpoints, analysis, endpoints,
                   test_generator, doc_generator, test_code, documentation,
                   saved, printed, stages>>

InitGenerated ==
    /\ pc = "generate_tests_call"
    /\ args = [app_file_exists |-> TRUE, no_run |-> FALSE,
               output_dir |-> "writable"]
    /\ source = Source(TRUE, TRUE, <<>>)
    /\ child = Child("ok", "completed", <<>>, <<>>, 0, "ok")
    /\ app \in Apps
    /\ analyzer_endpoints = <<>>
    /\ analysis = [returned |-> <<>>, endpoints |-> <<>>, printed |-> "",
                   raised |-> ""]
    /\ endpoints \in GeneratedEndpoints
    /\ test_generator = <<endpoints>>
    /\ doc_generator = <<endpoints>>
    /\ test_code = <<>>
    /\ documentation = <<>>
    /\ temp_file = "none"
    /\ child_started = FALSE
    /\ results = <<>>
    /\ saved = {}
    /\ printed = <<>>
    /\ stages = <<>>
    /\ escaped = ""

NextGenerated == GenerateTestsCall \/ RunGeneratedTests

SpecGenerated == InitGenerated /\ [][NextGenerated]_vars

----------------------------------------------------------------------------
(* The endpoint extractor's claims, under SpecAnalyzer.                    *)

Analyzed == pc = "analyzed" /\ source.readable /\ source.parses

\* A call <identifier>.<verb>(<literal string>, ...), as the contract words it.
VerbCall(d) ==
    /\ d.node = "Call"
    /\ d.func.node = "Attribute"
    /\ upper(d.func.attr) \in HTTP_METHODS
    /\ d.args # <<>>
    /\ d.args[1].node = "Constant"
    /\ d.args[1].const.type = "str"

ContractDecorator(d) == VerbCall(d) /\ d.func.value.node = "Name"

FunctionDefs == SelectSeq(ast_walk(source.tree), LAMBDA n : n.node = "FunctionDef")

Count(seq, Test(_)) == Cardinality({i \in DOMAIN seq : Test(seq[i])})

\* C1: analyze_app returns exactly one record for every function definition
\* that carries a decorator <identifier>.<verb>(<literal string>, ...), no
\* record for any other function definition, and only the five verbs.
C1_OneRecordPerEndpointFunction ==
    Analyzed =>
        /\ \A name \in {FunctionDefs[i].name : i \in DOMAIN FunctionDefs} :
              Count(analysis.returned, LAMBDA e : e.function_name = name)
              = Count(FunctionDefs,
                      LAMBDA f : /\ f.name = name
                                 /\ \E k \in DOMAIN f.decorator_list :
                                       ContractDecorator(f.decorator_list[k]))
        /\ \A i \in DOMAIN analysis.returned :
              analysis.returned[i].method \in HTTP_METHODS
        /\ analysis.printed = ""

\* The source is one function definition with at least one verb call.
OneDecoratedFunction ==
    /\ Analyzed
    /\ Len(source.tree) = 1
    /\ source.tree[1].node = "FunctionDef"
    /\ source.tree[1].body = <<>>
    /\ \E k \in DOMAIN source.tree[1].decorator_list :
          VerbCall(source.tree[1].decorator_list[k])

FirstVerbCall(f) ==
    f.decorator_list[CHOOSE k \in DOMAIN f.decorator_list :
        /\ VerbCall(f.decorator_list[k])
        /\ \A j \in 1..(k - 1) : ~VerbCall(f.decorator_list[j])]

\* C2: a function with several decorators yields exactly one record, whose
\* method and path are those of the first decorator, in decorator order,
\* that is a verb call with a literal path.
C2_FirstVerbDecoratorWins ==
    OneDecoratedFunction =>
        /\ Len(analysis.returned) = 1
        /\ analysis.returned[1].method
              = upper(FirstVerbCall(source.tree[1]).func.attr)
        /\ analysis.returned[1].path
              = FirstVerbCall(source.tree[1]).args[1].const

\* The type name the annotation policy gives an annotation of a known shape.
PolicyType(annotation) ==
    CASE annotation.node = "Name" -> annotation.id
      [] annotation.node = "Constant" -> annotation.const.repr
      [] annotation.node = "Attribute" /\ annotation.value.node = "Name" ->
            annotation.value.id \o "." \o annotation.attr
      [] OTHER -> "Any"

\* The source is one function that the decorator scan takes for an endpoint.
OneEndpointFunction ==
    /\ OneDecoratedFunction
    /\ \E k \in DOMAIN source.tree[1].decorator_list :
          /\ VerbCall(source.tree[1].decorator_list[k])
          /\ source.tree[1].decorator_list[k].args[1].const.repr # ""

\* C3: type extraction never fails, and every parameter type and return
\* type follows the annotation policy ("Any" for any other shape).
C3_TypeExtractionNeverFails ==
    OneEndpointFunction =>
        /\ analysis.printed = ""
        /\ Len(analysis.returned) = 1
        /\ Len(analysis.returned[1].parameters) = Len(source.tree[1].args)
        /\ \A i \in DOMAIN analysis.returned[1].parameters :
              analysis.returned[1].parameters[i].type
              = PolicyType(source.tree[1].args[i].annotation)
        /\ analysis.returned[1].return_type
              = PolicyType(source.tree[1].returns)

\* C4: when the file cannot be read or does not parse, analyze_app prints
\* the failure and returns an empty list; no exception leaves analyze_app.
C4_AnalysisFailureReported ==
    pc = "analyzed" =>
        /\ escaped = ""
        /\ analysis.raised = ""
        /\ ~source.readable =>
              analysis.returned = <<>> /\ analysis.printed = "OSError"
        /\ source.readable /\ ~source.parses =>
              analysis.returned = <<>> /\ analysis.printed = "SyntaxError"

C4_Witness ==
    /\ pc = "analyzed"
    /\ source.readable /\ ~source.parses
    /\ analysis.printed = "SyntaxError"
    /\ analysis.returned = <<>>

----------------------------------------------------------------------------
(* The orchestrator's claims, under Spec.                                  *)

BothArtifacts == {"test_generated.py", "api_documentation.md"}

HasBlock(text, kind) == \E i \in DOMAIN text : text[i].kind = kind

\* C5: when analysis yields no record, analyze_application puts exactly one
\* placeholder record in its place before it builds the generators, so the
\* generators never hold an empty list, and the generated test module and
\* documentation are non-empty and carry an endpoint each.
C5_PlaceholderSubstituted ==
    /\ test_generator # <<>> =>
          /\ test_generator[1] # <<>>
          /\ doc_generator = test_generator
          /\ endpoints = test_generator[1]
          /\ analysis.returned = <<>> => test_generator[1] = <<Placeholder>>
          /\ analysis.returned # <<>> => test_generator[1] = analysis.returned
    /\ doc_generator # <<>> => doc_generator[1] # <<>>
    /\ pc \in {"generate_documentation", "run_tests", "save_files"} =>
          test_code # <<>> /\ HasBlock(test_code, "test_success")
    /\ pc \in {"run_tests", "save_files"} =>
          documentation # <<>> /\ HasBlock(documentation, "doc_endpoint")

C5_Witness ==
    /\ pc = "done"
    /\ analysis.returned = <<>>
    /\ test_generator = <<<<Placeholder>>>>
    /\ doc_generator = <<<<Placeholder>>>>
    /\ HasBlock(test_code, "test_success")
    /\ HasBlock(documentation, "doc_endpoint")
    /\ saved = BothArtifacts

\* The order of the stages of a run, with and without --no-run.
StageOrder(no_run) ==
    <<"analyze", "generate_tests", "generate_documentation">>
    \o (IF no_run THEN <<>> ELSE <<"run_tests">>)
    \o <<"save_files">>

IsPrefix(a, b) == Len(a) <= Len(b) /\ a = SubSeq(b, 1, Len(a))

Completed == pc = "done" /\ printed = <<"AI Agent completed successfully!">>

\* C6: the stages of a run of main on an existing file occur in the order
\* analyze, generate tests, generate documentation, execute tests, persist;
\* execution is skipped exactly under --no-run, and then no child process is
\* started, no temporary file is written, and both artifacts are persisted
\* (whenever the output directory can be written).
C6_StageOrder ==
    /\ IsPrefix(stages, StageOrder(args.no_run))
    /\ stages # <<>> => args.app_file_exists
    /\ Completed => stages = StageOrder(args.no_run) /\ saved = BothArtifacts
    /\ args.no_run => ~child_started /\ temp_file = "none" /\ results = <<>>
    /\ child_started => "run_tests" \in {stages[i] : i \in DOMAIN stages}
    /\ (pc = "done" /\ args.app_file_exists /\ args.no_run
        /\ args.output_dir = "writable") =>
          Completed /\ saved = BothArtifacts

C6_Witness ==
    /\ Completed
    /\ args.no_run
    /\ stages = <<"analyze", "generate_tests", "generate_documentation",
                  "save_files">>
    /\ ~child_started
    /\ saved = BothArtifacts

ErrorMessages == {"Error: " \o e : e \in ExceptionClasses}

\* C7: a failure raised by any stage is caught at main's outermost boundary
\* and printed: main returns normally and no exception leaves it.
C7_FailuresCaughtAndPrinted ==
    /\ escaped = ""
    /\ (pc = "done" /\ args.app_file_exists) =>
          /\ Len(printed) = 1
          /\ Completed \/ printed[1] \in ErrorMessages
          /\ saved # BothArtifacts => printed[1] \in ErrorMessages
          /\ ("run_tests" \in {stages[i] : i \in DOMAIN stages}
              /\ child.tempfile # "ok") => printed[1] \in ErrorMessages
          /\ ("save_files" \in {stages[i] : i \in DOMAIN stages}
              /\ args.output_dir # "writable") => printed = <<"Error: OSError">>

C7_Witness ==
    /\ pc = "done"
    /\ stages = <<"analyze", "generate_tests", "generate_documentation",
                  "run_tests", "save_files">>
    /\ args.output_dir = "doc_file_fails"
    /\ printed = <<"Error: OSError">>
    /\ escaped = ""

----------------------------------------------------------------------------
(* The test executor's claims, under SpecRunner.                           *)

\* run_tests returned after the child process ran to its end.
ChildCompleted ==
    pc = "returned" /\ child.tempfile = "ok" /\ child.outcome = "completed"

OutputLines == split(child.stdout, NL)

WithStatus(status) == SelectSeq(results, LAMBDA r : r.status = status)

Occurrences(text, tok) == Cardinality({i \in DOMAIN text : text[i] = tok})

\* The text after the first occurrence of tok.
After(text, tok) == SubSeq(text, Find(text, tok) + 1, Len(text))

\* The text before the first occurrence of tok.
Before(text, tok) == SubSeq(text, 1, Find(text, tok) - 1)

Trimmed(text) ==
    IF \A i \in DOMAIN text : text[i] \in {SP, NL} THEN <<>>
    ELSE SubSeq(text,
                CHOOSE i \in DOMAIN text :
                    text[i] \notin {SP, NL}
                    /\ \A j \in 1..(i - 1) : text[j] \in {SP, NL},
                CHOOSE i \in DOMAIN text :
                    text[i] \notin {SP, NL}
                    /\ \A j \in (i + 1)..Len(text) : text[j] \in {SP, NL})

PassedLines ==
    SelectSeq(OutputLines,
              LAMBDA l : Contains(l, CHECK) /\ Contains(l, "PASSED"))

FailedLines ==
    SelectSeq(OutputLines,
              LAMBDA l : /\ ~(Contains(l, CHECK) /\ Contains(l, "PASSED"))
                         /\ Contains(l, CROSS) /\ Contains(l, "FAILED"))

\* C9: every standard-output line holding the x glyph and the word FAILED
\* yields one FAILED outcome whose test name is the text between the glyph
\* and the next hyphen and whose error message is everything after that
\* hyphen, further hyphens included.
C9_FailedLineParsed ==
    ChildCompleted =>
        /\ Len(WithStatus("FAILED")) = Len(FailedLines)
        /\ \A k \in DOMAIN FailedLines :
              (Occurrences(FailedLines[k], CROSS) = 1
               /\ Contains(After(FailedLines[k], CROSS), HYPHEN)) =>
                /\ WithStatus("FAILED")[k].test_name
                   = Trimmed(Before(After(FailedLines[k], CROSS), HYPHEN))
                /\ WithStatus("FAILED")[k].error
                   = <<Trimmed(After(After(FailedLines[k], CROSS), HYPHEN))>>

\* C10: standard-error text of the child adds exactly one ERROR outcome,
\* after every outcome parsed from standard output, whose output and error
\* are that text verbatim; without such text no ERROR outcome is added.
C10_StderrOutcomeAppended ==
    ChildCompleted =>
        /\ Len(results) = Len(PassedLines) + Len(FailedLines)
                          + (IF child.stderr # <<>> THEN 1 ELSE 0)
        /\ child.stderr = <<>> => WithStatus("ERROR") = <<>>
        /\ child.stderr # <<>> =>
              /\ WithStatus("ERROR")
                 = <<TestResult(<<"General Error">>, "ERROR", child.stderr,
                                <<child.stderr>>)>>
              /\ results[Len(results)].status = "ERROR"

C10_Witness ==
    /\ ChildCompleted
    /\ child.stderr = <<SP, "Traceback", SP, HYPHEN, NL>>
    /\ Len(results) = 3
    /\ results[1].status = "PASSED"
    /\ results[2].status = "FAILED"
    /\ results[3].status = "ERROR"
    /\ results[3].output = child.stderr

----------------------------------------------------------------------------
(* Timeout, cleanup and isolation.                                         *)

InStages(stage) == stage \in {stages[i] : i \in DOMAIN stages}

\* main ran the tests and the child outlived the timeout.
TimedOut ==
    /\ InStages("run_tests")
    /\ child.tempfile = "ok"
    /\ child.outcome = "timeout"

TimeoutOutcome ==
    TestResult(<<"Timeout">>, "ERROR", <<"Test execution timed out">>,
               <<<<"Test execution exceeded 30 seconds">>>>)

\* C11: on a timeout of the child, run_tests returns the single synthetic
\* ERROR outcome that names the timeout and no PASSED or FAILED outcome; the
\* run is not stopped by it and goes on to persist both artifacts (whenever
\* the output directory can be written).
C11_TimeoutNotFatal ==
    TimedOut =>
        /\ results = <<TimeoutOutcome>>
        /\ escaped = ""
        /\ pc \in {"save_files", "done"}
        /\ pc = "done" =>
              /\ InStages("save_files")
              /\ args.output_dir = "writable" =>
                    Completed /\ saved = BothArtifacts

C11_Witness ==
    /\ TimedOut
    /\ child.stdout # <<>>
    /\ results = <<TimeoutOutcome>>
    /\ Completed
    /\ saved = BothArtifacts

\* C12: the temporary file is removed on every exit path of run_tests
\* (completion, timeout, any other invocation failure, a failure while the
\* file is written); a failing removal is swallowed and leaves the returned
\* results as they are.
C12_TempFileAlwaysRemoved ==
    pc = "returned" =>
        /\ (child.tempfile # "create_fails" /\ child.unlink = "ok") =>
              temp_file = "removed"
        /\ (child.tempfile = "ok" /\ child.unlink = "fails") =>
              /\ escaped = ""
              /\ results
                 = run_tests(test_code, [child EXCEPT !.unlink = "ok"]).results

\* C14: a child that exits with a non-zero status or writes standard-error
\* text leaves a synthetic outcome for that event in the returned list, and
\* run_tests returns normally.
C14_ExitStatusOrStderrReported ==
    (ChildCompleted /\ (child.returncode # 0 \/ child.stderr # <<>>)) =>
        /\ escaped = ""
        /\ WithStatus("ERROR") # <<>>

\* The record that extraction of the endpoint function f yields on its own.
OwnRecords(f) ==
    IF _extract_endpoint_info(f).tag = "return"
    THEN _extract_endpoint_info(f).value
    ELSE <<>>

\* C15: when extraction fails on one function, only that function is
\* skipped: the records of every other endpoint function of the file are
\* still returned.
C15_FailureSkipsOneFunction ==
    Analyzed =>
        \A i \in DOMAIN FunctionDefs :
            \A k \in DOMAIN OwnRecords(FunctionDefs[i]) :
                \E j \in DOMAIN analysis.returned :
                    analysis.returned[j] = OwnRecords(FunctionDefs[i])[k]

----------------------------------------------------------------------------
(* The generated module's claims, under SpecGenerated.                     *)

\* The generated module has been run and run_tests has returned.
Executed == pc = "returned" /\ test_code # <<>>

\* The marker line of an endpoint's test, with the path as extracted.
MarkerLine(endpoint, suffix) ==
    <<CHECK, SP, endpoint.method, SP>> \o Text(str(endpoint.path)) \o suffix
    \o <<SP, HYPHEN, SP, "PASSED">>

\* run_tests returned a PASSED outcome read from that line.
PassedFrom(line) ==
    /\ \E i \in DOMAIN OutputLines : OutputLines[i] = line
    /\ \E i \in DOMAIN results :
          results[i].status = "PASSED" /\ results[i].output = line

SuccessAssertionsHold(endpoint) ==
    PlainStatus(app, str(endpoint.path)) \in {"200", "201", "204"}

InvalidDataAssertionsHold(endpoint) ==
    endpoint.method \in {"POST", "PUT", "PATCH"} =>
        InvalidStatus(app, str(endpoint.path)) \in {"400", "404", "422", "500"}

\* C13: for every endpoint record and whatever its method, each of its two
\* generated tests that completes without a failed assertion prints its
\* marker line (glyph, method, path, PASSED), and run_tests recovers an
\* outcome for each of the two tests.
C13_BothTestsPrintMarker ==
    Executed =>
        \A i \in DOMAIN endpoints :
            /\ SuccessAssertionsHold(endpoints[i]) =>
                  PassedFrom(MarkerLine(endpoints[i], <<>>))
            /\ InvalidDataAssertionsHold(endpoints[i]) =>
                  PassedFrom(MarkerLine(endpoints[i],
                                        <<SP, "(invalid data)">>))

\* C16: for every endpoint record, a path with a brace parameter included,
\* whose success test's assertions hold, the module prints the PASSED line
\* with the path exactly as extracted, and run_tests returns a PASSED and no
\* FAILED outcome for that test.
C16_BracePathPasses ==
    Executed =>
        \A i \in DOMAIN endpoints :
            SuccessAssertionsHold(endpoints[i]) =>
                /\ PassedFrom(MarkerLine(endpoints[i], <<>>))
                /\ \A k \in DOMAIN results :
                      results[k].status = "FAILED" =>
                          results[k].test_name
                          # <<"test_" \o endpoints[i].function_name>>

============================================================================
